---------------------------- MODULE Spec2Model ----------------------------
(***************************************************************************)
(* A model of the two scripts of the repository:                           *)
(*   src/python_learning_71b04e.py  (escape-time iteration, grid sampler)  *)
(*   src/python_tutorial_8596ee.py  (ASTPrinter, VariableAssignmentFinder, *)
(*                                   and the script that drives them)      *)
(* Numbers are exact rationals: a real is <<numerator, denominator>>, a    *)
(* complex is <<p, q, d>> for (p + q i) / d, always in lowest terms.       *)
(***************************************************************************)
EXTENDS Integers, Sequences, FiniteSets, TLC

VARIABLES
    pc,                 \* position of the running script / call
    \* ---- mandelbrot(c, max_iterations)
    c, max_iterations, iterations,
    \* ---- create_mandelbrot_image(...)
    width, height, x_min, x_max, y_min, y_max,
    real_axis, imaginary_axis, mandelbrot_image, i, j,
    \* ---- the visitors
    tree,               \* the parsed tree (pre-order sequence of nodes)
    visitor,            \* class of the visitor: ASTPrinter or the finder
    indent,             \* ASTPrinter.indent
    indent0,            \* the indent the printer was constructed with
    output,             \* lines printed by the visitor, in order
    stack,              \* the Python call stack of the traversal
    visits,             \* every call of visit(node): node, handler, indent
    assignments,        \* VariableAssignmentFinder.assignments
    run,                \* number of the traversal under way (1 or 2)
    first,              \* what the first traversal produced
    fresh,              \* whether the second traversal used a new visitor
    \* ---- the script of python_tutorial_8596ee.py
    example,            \* the example being run (1..4), 5 at the end
    attempted,          \* examples whose try block was entered
    failed,             \* examples whose parse raised SyntaxError
    messages            \* examples whose except clause printed a message

mandVars   == <<c, max_iterations, iterations>>
imgVars    == <<width, height, x_min, x_max, y_min, y_max,
                real_axis, imaginary_axis, mandelbrot_image, i, j>>
astVars    == <<tree, visitor, indent, indent0, output, stack, visits, assignments,
                run, first, fresh>>
scriptVars == <<example, attempted, failed, messages>>
vars       == <<pc, mandVars, imgVars, astVars, scriptVars>>

(***************************************************************************)
(* Bounds of the model.                                                    *)
(***************************************************************************)
Den      == 2   \* coordinates are multiples of 1/Den
MaxIter  == 3   \* largest max_iterations
MaxDim   == 3   \* largest width and height
MaxStep  == 2   \* largest spacing of two samples, in 1/Den
MaxNodes == 4   \* largest generated tree, the ctx of a Name not counted
MaxFloat == 1000 \* stands for sys.float_info.max, the largest finite float

(***************************************************************************)
(* Exact arithmetic.                                                       *)
(***************************************************************************)
Abs(n) == IF n < 0 THEN -n ELSE n

RECURSIVE GCD(_, _)
GCD(a, b) == IF b = 0 THEN Abs(a) ELSE GCD(b, a % Abs(b))

\* (p + q i) / d in lowest terms, d > 0
Reduce(p, q, d) ==
    LET g == GCD(GCD(p, q), d)
    IN  <<p \div g, q \div g, d \div g>>

\* complex(re, im) of two reals <<n, d>>
Complex(re, im) == Reduce(re[1] * im[2], im[1] * re[2], re[2] * im[2])

CZero == <<0, 0, 1>>

\* z*z + c
SquareAdd(z, cc) ==
    LET d2 == z[3] * z[3]
    IN  Reduce((z[1] * z[1] - z[2] * z[2]) * cc[3] + cc[1] * d2,
               (2 * z[1] * z[2]) * cc[3] + cc[2] * d2,
               d2 * cc[3])

\* abs(z) > 2
AbsGreater2(z) == z[1] * z[1] + z[2] * z[2] > 4 * z[3] * z[3]

\* abs(z) of a complex with finite parts raises OverflowError when the
\* magnitude is no finite float
\* (|z| <= |re| + |im| settles the small magnitudes without the products)
AbsOverflows(z) ==
    IF Abs(z[1]) \div z[3] + Abs(z[2]) \div z[3] + 2 <= MaxFloat
    THEN FALSE
    ELSE z[1] * z[1] + z[2] * z[2] > MaxFloat * MaxFloat * z[3] * z[3]

(***************************************************************************)
(* mandelbrot(c, max_iterations): the loop of lines 32-44, entered with z  *)
(* and the loop index k.  The call returns a value or raises.              *)
(***************************************************************************)
Returns(v) == [raised |-> FALSE, value |-> v]
Raises == [raised |-> TRUE, value |-> 0]

RECURSIVE MandelbrotLoop(_, _, _, _)
MandelbrotLoop(z, k, cc, maxit) ==
    IF k >= maxit THEN Returns(maxit)
    ELSE LET z1 == SquareAdd(z, cc)
         IN  IF AbsOverflows(z1) THEN Raises
             ELSE IF AbsGreater2(z1) THEN Returns(k)
             ELSE MandelbrotLoop(z1, k + 1, cc, maxit)

mandelbrot(cc, maxit) == MandelbrotLoop(CZero, 0, cc, maxit)

(***************************************************************************)
(* np.linspace(start, stop, num)[k], start and stop in units of 1/Den:     *)
(* num samples, both endpoints included; a single sample is start.         *)
(***************************************************************************)
linspace(start, stop, num, k) ==
    IF num = 1 THEN <<start, Den>>
    ELSE <<start * (num - 1) + k * (stop - start), Den * (num - 1)>>


(***************************************************************************)
(* Syntax trees.  A tree is the sequence of its nodes in pre-order, each   *)
(* with its depth, its kind (the class name of the ast node) and its       *)
(* scalar (id of a Name, name of a FunctionDef, value of a Constant).      *)
(* The children of a node are in the order of its fields; the children of  *)
(* an Assign are its targets followed by its value; the child of a Name is *)
(* its ctx; the first child of a Call is its func.                         *)
(***************************************************************************)
Node(d, k, s) == [depth |-> d, kind |-> k, id |-> s]

\* ast.parse(sample_code), lines 95-102
SampleTree == <<
    Node(0, "Module", ""),
    Node(1, "FunctionDef", "greet"),
    Node(2, "arguments", ""),
    Node(3, "arg", "name"),
    Node(2, "Assign", ""),
    Node(3, "Name", "message"),
    Node(4, "Store", ""),
    Node(3, "JoinedStr", ""),
    Node(4, "Constant", "'Hello, '"),
    Node(4, "FormattedValue", ""),
    Node(5, "Name", "name"),
    Node(6, "Load", ""),
    Node(4, "Constant", "'!'"),
    Node(2, "Expr", ""),
    Node(3, "Call", ""),
    Node(4, "Name", "print"),
    Node(5, "Load", ""),
    Node(4, "Name", "message"),
    Node(5, "Load", ""),
    Node(1, "Assign", ""),
    Node(2, "Name", "x"),
    Node(3, "Store", ""),
    Node(2, "Constant", "100"),
    Node(1, "Expr", ""),
    Node(2, "Call", ""),
    Node(3, "Name", "greet"),
    Node(4, "Load", ""),
    Node(3, "Constant", "'World'") >>

\* ast.parse(inspect.getsource(example_function_for_ast_demo)), lines 109-113
FunctionTree == <<
    Node(0, "Module", ""),
    Node(1, "FunctionDef", "example_function_for_ast_demo"),
    Node(2, "arguments", ""),
    Node(3, "arg", "a"),
    Node(3, "arg", "b"),
    Node(2, "Assign", ""),
    Node(3, "Name", "result"),
    Node(4, "Store", ""),
    Node(3, "BinOp", ""),
    Node(4, "Name", "a"),
    Node(5, "Load", ""),
    Node(4, "Add", ""),
    Node(4, "Name", "b"),
    Node(5, "Load", ""),
    Node(2, "If", ""),
    Node(3, "Compare", ""),
    Node(4, "Name", "result"),
    Node(5, "Load", ""),
    Node(4, "Gt", ""),
    Node(4, "Constant", "10"),
    Node(3, "Expr", ""),
    Node(4, "Call", ""),
    Node(5, "Name", "print"),
    Node(6, "Load", ""),
    Node(5, "Constant", "'Large sum!'"),
    Node(2, "Return", ""),
    Node(3, "Name", "result"),
    Node(4, "Load", "") >>

\* m lies in the subtree below n
Below(t, n, m) == m > n /\ \A k \in n + 1 .. m : t[k].depth > t[n].depth

ChildSet(t, n) ==
    {m \in n + 1 .. Len(t) : t[m].depth = t[n].depth + 1 /\ Below(t, n, m)}

RECURSIVE Ascending(_)
Ascending(S) ==
    IF S = {} THEN <<>>
    ELSE LET m == CHOOSE x \in S : \A y \in S : x <= y
         IN  <<m>> \o Ascending(S \ {m})

\* the child nodes of n, in the order of the node's fields
Children(t, n) == Ascending(ChildSet(t, n))

Parent(t, m) == CHOOSE n \in 1 .. m - 1 : m \in ChildSet(t, n)

(***************************************************************************)
(* The generated trees: a Module at the root, then at most MaxNodes - 1    *)
(* further nodes over the kinds the two visitors tell apart, not counting  *)
(* the ctx that every Name carries as its only child.  A Constant has no   *)
(* children, an Assign has a target and a value, a Call has its func.      *)
(* Tuple stands for a compound target and for every kind without a         *)
(* handler.                                                                *)
(***************************************************************************)
NodeChoices ==
    {Node(0, k, "") : k \in {"Assign", "Expr", "Call", "Tuple", "Constant"}}
    \cup {Node(0, "Name", "x"), Node(0, "FunctionDef", "f")}

\* the node of t that a new last node of depth d hangs under
Attach(t, d) == CHOOSE n \in 1 .. Len(t) :
                    /\ t[n].depth = d - 1
                    /\ \A k \in n + 1 .. Len(t) : t[k].depth >= d

\* t with one more node of depth d (and, for a Name, its ctx)
Extend(t, d, nd) ==
    IF nd.kind = "Name"
    THEN t \o <<[nd EXCEPT !.depth = d], Node(d + 1, "Store", "")>>
    ELSE Append(t, [nd EXCEPT !.depth = d])

RECURSIVE Prefixes(_)
Prefixes(n) ==
    IF n = 1 THEN {<<Node(0, "Module", "")>>}
    ELSE {Extend(x[1], x[2], x[3]) :
            x \in {y \in Prefixes(n - 1) \X (1 .. n - 1) \X NodeChoices :
                    /\ y[2] <= y[1][Len(y[1])].depth + 1
                    /\ y[1][Attach(y[1], y[2])].kind
                           \notin {"Constant", "Name", "Store"}}}

WellFormed(t) ==
    \A n \in 1 .. Len(t) :
        LET k == Cardinality(ChildSet(t, n))
        IN  /\ t[n].kind = "Assign" => k >= 2
            /\ t[n].kind = "Call" => k >= 1

GeneratedTrees ==
    UNION {{t \in Prefixes(n) : WellFormed(t)} : n \in 1 .. MaxNodes}

(***************************************************************************)
(* Values of the variables a specification does not use.                   *)
(***************************************************************************)
MandIdle ==
    /\ c = CZero /\ max_iterations = 0 /\ iterations = -1

ImgIdle ==
    /\ width = 0 /\ height = 0
    /\ x_min = 0 /\ x_max = 0 /\ y_min = 0 /\ y_max = 0
    /\ real_axis = <<>> /\ imaginary_axis = <<>> /\ mandelbrot_image = <<>>
    /\ i = 0 /\ j = 0

AstIdle ==
    /\ tree = <<>> /\ visitor = "" /\ indent = 0 /\ indent0 = 0 /\ output = <<>>
    /\ stack = <<>> /\ visits = <<>> /\ assignments = <<>>
    /\ run = 0 /\ first = <<>> /\ fresh = FALSE

ScriptIdle ==
    /\ example = 0 /\ attempted = {} /\ failed = {} /\ messages = {}

(***************************************************************************)
(* The traversal.  stack holds the frames of the handlers under way, the   *)
(* innermost last: the node, the method, where the method stands ("start", *)
(* "children": inside NodeVisitor.generic_visit's loop over the children,  *)
(* "after": back from self.generic_visit) and the number of children       *)
(* already visited.                                                        *)
(***************************************************************************)
Top == stack[Len(stack)]
Pop == SubSeq(stack, 1, Len(stack) - 1)
SetTop(f) == [stack EXCEPT ![Len(stack)] = f]

Frame(n, fn) == [node |-> n, fn |-> fn, pc |-> "start", next |-> 0]

\* a call of visit(root) is under way
Visiting == pc \in {"visiting", "script_visiting"} /\ stack # <<>>

\* getattr(self, 'visit_' + node.__class__.__name__, self.generic_visit)
VisitMethod(kind) ==
    CASE kind = "Module" -> "visit_Module"
      [] kind = "FunctionDef" -> "visit_FunctionDef"
      [] kind = "Assign" -> "visit_Assign"
      [] kind = "Name" -> "visit_Name"
      [] kind = "Constant" -> "visit_Constant"
      [] kind = "Expr" -> "visit_Expr"
      [] kind = "Call" -> "visit_Call"
      [] OTHER -> "generic_visit"

DispatchNoCall(cls, kind) ==
    IF cls = "ASTPrinter"
    THEN IF kind = "Call" THEN "generic_visit" ELSE VisitMethod(kind)
    ELSE IF kind = "Assign" THEN "visit_Assign" ELSE "generic_visit"

\* the method visit(node) calls on a visitor of class cls
Dispatch(cls, kind) ==
    IF cls = "ASTPrinter" THEN VisitMethod(kind)
    ELSE IF kind = "Assign" THEN "visit_Assign" ELSE "generic_visit"

\* what visit(n) leaves in the log of calls
Visited(cls, t, n, ind) ==
    [node |-> n, handler |-> Dispatch(cls, t[n].kind), indent |-> ind]

\* print(f"{'  ' * self.indent}{summary}")
Line(ind, kind, label, count, text) ==
    [spaces |-> 2 * ind, kind |-> kind, label |-> label, count |-> count,
     text |-> text]

Composite == {"visit_Module", "visit_FunctionDef", "visit_Assign",
              "visit_Expr", "visit_Call"}

\* a handler of ASTPrinter that prints its line, then
\* self.indent += 1; self.generic_visit(node)
PrinterEnter(fn, line) ==
    /\ Visiting
    /\ visitor = "ASTPrinter"
    /\ Top.fn = fn /\ Top.pc = "start"
    /\ output' = Append(output, line)
    /\ indent' = indent + 1
    /\ stack' = Append(SetTop([Top EXCEPT !.pc = "after"]),
                       Frame(Top.node, "generic_visit"))
    /\ UNCHANGED <<pc, tree, visitor, indent0, visits, assignments, run,
                   first, fresh, mandVars, imgVars, scriptVars>>

\* a handler of ASTPrinter that prints its line and returns
PrinterLeaf(fn, line) ==
    /\ Visiting
    /\ visitor = "ASTPrinter"
    /\ Top.fn = fn /\ Top.pc = "start"
    /\ output' = Append(output, line)
    /\ stack' = Pop
    /\ UNCHANGED <<pc, tree, visitor, indent, indent0, visits, assignments,
                   run, first, fresh, mandVars, imgVars, scriptVars>>

visit_Module ==
    PrinterEnter("visit_Module",
        Line(indent, "Module", "body_count", Len(Children(tree, Top.node)), ""))

visit_FunctionDef ==
    PrinterEnter("visit_FunctionDef",
        Line(indent, "FunctionDef", "name", 0, tree[Top.node].id))

visit_Assign ==
    PrinterEnter("visit_Assign",
        Line(indent, "Assign", "targets_count",
             Len(Children(tree, Top.node)) - 1, ""))

visit_Name_Recursing ==
    PrinterEnter("visit_Name",
        Line(indent, "Name", tree[Top.node].id, 0,
             tree[Children(tree, Top.node)[1]].kind))

visit_Name ==
    PrinterLeaf("visit_Name",
        Line(indent, "Name", tree[Top.node].id, 0,
             tree[Children(tree, Top.node)[1]].kind))

visit_Constant ==
    PrinterLeaf("visit_Constant",
        Line(indent, "Constant", "value", 0, tree[Top.node].id))

visit_Expr ==
    PrinterEnter("visit_Expr", Line(indent, "Expr", "", 0, ""))

visit_Call ==
    PrinterEnter("visit_Call",
        Line(indent, "Call", "func_type", 0,
             tree[Children(tree, Top.node)[1]].kind))

\* ASTPrinter.generic_visit up to its call of super().generic_visit
generic_visit ==
    /\ Visiting
    /\ visitor = "ASTPrinter"
    /\ Top.fn = "generic_visit" /\ Top.pc = "start"
    /\ output' = Append(output, Line(indent, tree[Top.node].kind, "", 0, ""))
    /\ indent' = indent + 1
    /\ stack' = SetTop([Top EXCEPT !.pc = "children"])
    /\ UNCHANGED <<pc, tree, visitor, indent0, visits, assignments, run,
                   first, fresh, mandVars, imgVars, scriptVars>>

\* NodeVisitor.generic_visit: self.visit(child) for the next child
VisitChild ==
    /\ Visiting
    /\ Top.pc = "children"
    /\ Top.next < Len(Children(tree, Top.node))
    /\ LET child == Children(tree, Top.node)[Top.next + 1]
       IN  /\ stack' = Append(SetTop([Top EXCEPT !.next = Top.next + 1]),
                              Frame(child, Dispatch(visitor, tree[child].kind)))
           /\ visits' = Append(visits, Visited(visitor, tree, child, indent))
    /\ UNCHANGED <<pc, tree, visitor, indent, indent0, output, assignments,
                   run, first, fresh, mandVars, imgVars, scriptVars>>

\* ASTPrinter.generic_visit after super().generic_visit: self.indent -= 1
generic_visit_return_NoDecrement ==
    /\ Visiting
    /\ visitor = "ASTPrinter"
    /\ Top.fn = "generic_visit" /\ Top.pc = "children"
    /\ Top.next >= Len(Children(tree, Top.node))
    /\ indent' = IF tree[Top.node].kind = "Tuple" THEN indent ELSE indent - 1
    /\ stack' = Pop
    /\ UNCHANGED <<pc, tree, visitor, indent0, output, visits, assignments,
                   run, first, fresh, mandVars, imgVars, scriptVars>>

generic_visit_return ==
    /\ Visiting
    /\ visitor = "ASTPrinter"
    /\ Top.fn = "generic_visit" /\ Top.pc = "children"
    /\ Top.next >= Len(Children(tree, Top.node))
    /\ indent' = indent - 1
    /\ stack' = Pop
    /\ UNCHANGED <<pc, tree, visitor, indent0, output, visits, assignments,
                   run, first, fresh, mandVars, imgVars, scriptVars>>

visit_return_NoDecrement ==
    /\ Visiting
    /\ visitor = "ASTPrinter"
    /\ Top.fn \in Composite /\ Top.pc = "after"
    /\ indent' = IF Top.fn = "visit_Expr" THEN indent ELSE indent - 1
    /\ stack' = Pop
    /\ UNCHANGED <<pc, tree, visitor, indent0, output, visits, assignments,
                   run, first, fresh, mandVars, imgVars, scriptVars>>

\* the end of visit_Module, visit_FunctionDef, visit_Assign, visit_Expr and
\* visit_Call: self.indent -= 1
visit_return ==
    /\ Visiting
    /\ visitor = "ASTPrinter"
    /\ Top.fn \in Composite /\ Top.pc = "after"
    /\ indent' = indent - 1
    /\ stack' = Pop
    /\ UNCHANGED <<pc, tree, visitor, indent0, output, visits, assignments,
                   run, first, fresh, mandVars, imgVars, scriptVars>>

(***************************************************************************)
(* VariableAssignmentFinder.                                               *)
(***************************************************************************)
\* the ids of the nodes of ns that are a Name, in order
RECURSIVE NameIds(_, _)
NameIds(t, ns) ==
    IF ns = <<>> THEN <<>>
    ELSE (IF t[Head(ns)].kind = "Name" THEN <<t[Head(ns)].id>> ELSE <<>>)
         \o NameIds(t, Tail(ns))

\* node.targets of an Assign: its children but the last, which is node.value
TargetsWithValue(t, n) == Children(t, n)

Targets(t, n) == SubSeq(Children(t, n), 1, Len(Children(t, n)) - 1)

\* VariableAssignmentFinder.visit_Assign up to self.generic_visit(node),
\* which is NodeVisitor.generic_visit
finder_visit_Assign ==
    /\ Visiting
    /\ visitor = "VariableAssignmentFinder"
    /\ Top.fn = "visit_Assign" /\ Top.pc = "start"
    /\ assignments' = assignments \o NameIds(tree, Targets(tree, Top.node))
    /\ stack' = Append(SetTop([Top EXCEPT !.pc = "after"]),
                       [Frame(Top.node, "generic_visit") EXCEPT !.pc = "children"])
    /\ UNCHANGED <<pc, tree, visitor, indent, indent0, output, visits, run,
                   first, fresh, mandVars, imgVars, scriptVars>>

\* the return of visit_Assign and of NodeVisitor.generic_visit
finder_return ==
    /\ Visiting
    /\ visitor = "VariableAssignmentFinder"
    /\ \/ Top.pc = "after"
       \/ Top.pc = "children" /\ Top.next >= Len(Children(tree, Top.node))
    /\ stack' = Pop
    /\ UNCHANGED <<pc, tree, visitor, indent, indent0, output, visits,
                   assignments, run, first, fresh, mandVars, imgVars,
                   scriptVars>>

\* NodeVisitor.generic_visit reached through visit(node): it has no start
finder_generic_visit ==
    /\ Visiting
    /\ visitor = "VariableAssignmentFinder"
    /\ Top.fn = "generic_visit" /\ Top.pc = "start"
    /\ stack' = SetTop([Top EXCEPT !.pc = "children"])
    /\ UNCHANGED <<pc, tree, visitor, indent, indent0, output, visits,
                   assignments, run, first, fresh, mandVars, imgVars,
                   scriptVars>>

(***************************************************************************)
(* Specification SpecVisitors: a visitor of either class is constructed    *)
(* and visit(root) is called on a tree, then a second time on the same     *)
(* tree, by the same visitor or by a new one.                              *)
(***************************************************************************)
\* `a = b = 1`, `(c, d) = a`, `o.f = a`, `a = 2`: several targets, compound
\* targets, a name assigned twice
TargetsTree == <<
    Node(0, "Module", ""),
    Node(1, "Assign", ""),
    Node(2, "Name", "a"),
    Node(3, "Store", ""),
    Node(2, "Name", "b"),
    Node(3, "Store", ""),
    Node(2, "Constant", "1"),
    Node(1, "Assign", ""),
    Node(2, "Tuple", ""),
    Node(3, "Name", "c"),
    Node(4, "Store", ""),
    Node(3, "Name", "d"),
    Node(4, "Store", ""),
    Node(3, "Store", ""),
    Node(2, "Name", "a"),
    Node(3, "Load", ""),
    Node(1, "Assign", ""),
    Node(2, "Attribute", "f"),
    Node(3, "Name", "o"),
    Node(4, "Load", ""),
    Node(3, "Store", ""),
    Node(2, "Name", "a"),
    Node(3, "Load", ""),
    Node(1, "Assign", ""),
    Node(2, "Name", "a"),
    Node(3, "Store", ""),
    Node(2, "Constant", "2") >>

Trees == GeneratedTrees \cup {SampleTree, FunctionTree, TargetsTree}

\* ASTPrinter(indent): the script constructs it with the default 0
StartIndents == {0, 1}

InitVisitors ==
    /\ pc = "constructed"
    /\ tree \in Trees
    /\ visitor \in {"ASTPrinter", "VariableAssignmentFinder"}
    /\ indent0 \in IF visitor = "ASTPrinter" THEN StartIndents ELSE {0}
    /\ indent = indent0
    /\ output = <<>> /\ stack = <<>> /\ visits = <<>> /\ assignments = <<>>
    /\ run = 0 /\ first = <<>> /\ fresh = FALSE
    /\ MandIdle /\ ImgIdle /\ ScriptIdle

\* visitor.visit(tree), for the first time
FirstVisit ==
    /\ pc = "constructed"
    /\ run' = 1
    /\ stack' = <<Frame(1, Dispatch(visitor, tree[1].kind))>>
    /\ visits' = <<Visited(visitor, tree, 1, indent)>>
    /\ pc' = "visiting"
    /\ UNCHANGED <<tree, visitor, indent, indent0, output, assignments, first,
                   fresh, mandVars, imgVars, scriptVars>>

\* visit(tree) returns: what it printed and collected is read
VisitReturns ==
    /\ pc = "visiting"
    /\ stack = <<>>
    /\ pc' = "returned"
    /\ first' = IF run = 1
                THEN [output |-> output, assignments |-> assignments,
                      tree |-> tree]
                ELSE first
    /\ UNCHANGED <<tree, visitor, indent, indent0, output, stack, visits,
                   assignments, run, fresh, mandVars, imgVars, scriptVars>>

\* visit(tree) once more, by the same visitor or (the finder) by a newly
\* constructed one; a new ASTPrinter(indent0) is in the state of the old one
SecondVisit ==
    /\ pc = "returned"
    /\ run = 1
    /\ run' = 2
    /\ fresh' \in IF visitor = "ASTPrinter" THEN {FALSE} ELSE BOOLEAN
    /\ indent' = IF fresh' THEN indent0 ELSE indent
    /\ assignments' = IF fresh' THEN <<>> ELSE assignments
    /\ output' = <<>>
    /\ stack' = <<Frame(1, Dispatch(visitor, tree[1].kind))>>
    /\ visits' = <<Visited(visitor, tree, 1, indent')>>
    /\ pc' = "visiting"
    /\ UNCHANGED <<tree, visitor, indent0, first, mandVars, imgVars,
                   scriptVars>>

NextVisitors ==
    \/ FirstVisit
    \/ visit_Module \/ visit_FunctionDef \/ visit_Assign \/ visit_Name
    \/ visit_Constant \/ visit_Expr \/ visit_Call
    \/ generic_visit \/ VisitChild \/ generic_visit_return \/ visit_return
    \/ finder_visit_Assign \/ finder_generic_visit \/ finder_return
    \/ VisitReturns
    \/ SecondVisit

SpecVisitors == InitVisitors /\ [][NextVisitors]_vars

(***************************************************************************)
(* Specification SpecScript: the run of python_tutorial_8596ee.py from     *)
(* line 116 on.  Each of its four examples parses a source text in a try   *)
(* block, constructs a visitor and calls visit; ast.parse either returns   *)
(* the tree or raises SyntaxError.  A sequential script keeps running, so  *)
(* the specification is weakly fair.                                       *)
(***************************************************************************)
Examples == 1 .. 4

\* the exception class named by the except clause of the example
ExceptClause(e) == IF e \in {1, 3} THEN "SyntaxError" ELSE "Exception"

CatchesValueErrorOnly(e, exc) ==
    IF e = 1 THEN exc = "ValueError" ELSE ExceptClause(e) \in {exc, "Exception"}

\* the except clause of example e handles an exception of class exc
Catches(e, exc) == ExceptClause(e) \in {exc, "Exception"}

\* after the try statement of the example: the next example, or the end
Proceed ==
    /\ example' = example + 1
    /\ pc' = IF example = 4 THEN "end" ELSE "try"

InitScript ==
    /\ pc = "try"
    /\ example = 1
    /\ attempted = {} /\ failed = {} /\ messages = {}
    /\ MandIdle /\ ImgIdle /\ AstIdle

\* ast.parse raises SyntaxError
ScriptParseFails ==
    /\ pc = "try"
    /\ attempted' = attempted \cup {example}
    /\ failed' = failed \cup {example}
    /\ pc' = "except"
    /\ UNCHANGED <<example, messages, mandVars, imgVars, astVars>>

\* ast.parse returns the tree; the visitor is constructed; visit(tree)
ScriptParseReturns ==
    /\ pc = "try"
    /\ attempted' = attempted \cup {example}
    /\ tree' = IF example \in {1, 3} THEN SampleTree ELSE FunctionTree
    /\ visitor' = IF example \in {1, 2} THEN "ASTPrinter"
                  ELSE "VariableAssignmentFinder"
    /\ indent' = 0 /\ indent0' = 0
    /\ assignments' = <<>>
    /\ stack' = <<Frame(1, Dispatch(visitor', tree'[1].kind))>>
    /\ visits' = <<Visited(visitor', tree', 1, 0)>>
    /\ pc' = "script_visiting"
    /\ UNCHANGED <<example, failed, messages, output, run, first, fresh,
                   mandVars, imgVars>>

\* visit(tree) returns (the finder's result is printed): the try block ends
ScriptVisitReturns ==
    /\ pc = "script_visiting"
    /\ stack = <<>>
    /\ Proceed
    /\ UNCHANGED <<attempted, failed, messages, mandVars, imgVars, astVars>>

\* the except clause: it prints its message, or the exception is not caught
ScriptExcept ==
    /\ pc = "except"
    /\ IF Catches(example, "SyntaxError")
       THEN /\ messages' = messages \cup {example}
            /\ Proceed
       ELSE /\ pc' = "crashed"
            /\ UNCHANGED <<messages, example>>
    /\ UNCHANGED <<attempted, failed, mandVars, imgVars, astVars>>

NextScript ==
    \/ ScriptParseFails \/ ScriptParseReturns
    \/ visit_Module \/ visit_FunctionDef \/ visit_Assign \/ visit_Name
    \/ visit_Constant \/ visit_Expr \/ visit_Call
    \/ generic_visit \/ VisitChild \/ generic_visit_return \/ visit_return
    \/ finder_visit_Assign \/ finder_generic_visit \/ finder_return
    \/ ScriptVisitReturns \/ ScriptExcept

SpecScript == InitScript /\ [][NextScript]_vars /\ WF_vars(NextScript)

(***************************************************************************)
(* Specification SpecMandelbrot: one call of mandelbrot on a coordinate of *)
(* the square [-2 - 1/Den, 2 + 1/Den]^2, or on one whose parts are finite  *)
(* floats near the largest (such as 1.5e308).                              *)
(***************************************************************************)
\* 0.75 * MaxFloat in units of 1/Den: finite, but the magnitude of the
\* complex with both parts equal to it is no finite float
HugeCoord == ((3 * MaxFloat) \div 4) * Den

Coords == ((-(2 * Den + 1)) .. (2 * Den + 1)) \cup {HugeCoord}

InitMandelbrot ==
    /\ pc = "mandelbrot_call"
    /\ \E a \in Coords, b \in Coords : c = Complex(<<a, Den>>, <<b, Den>>)
    /\ max_iterations \in 1 .. MaxIter
    /\ iterations = -1
    /\ ImgIdle /\ AstIdle /\ ScriptIdle

CallMandelbrot ==
    /\ pc = "mandelbrot_call"
    /\ LET r == mandelbrot(c, max_iterations)
       IN  IF r.raised
           THEN pc' = "mandelbrot_raised" /\ UNCHANGED iterations
           ELSE pc' = "mandelbrot_returned" /\ iterations' = r.value
    /\ UNCHANGED <<c, max_iterations, imgVars, astVars, scriptVars>>

NextMandelbrot == CallMandelbrot

SpecMandelbrot == InitMandelbrot /\ [][NextMandelbrot]_vars

(***************************************************************************)
(* Specification SpecImage: one call of create_mandelbrot_image.  The      *)
(* bounds are drawn so that the samples are multiples of 1/Den (the span   *)
(* of an axis is a multiple of its number of intervals).                   *)
(***************************************************************************)
XMins == {-(2 * Den), -1, HugeCoord}   \* -2.0 is x_min_val of the script
YMins == {-(Den + 1), 0, HugeCoord}    \* -1.5 is y_min_val (Den = 2)

Intervals(num) == IF num = 1 THEN 1 ELSE num - 1

InitImage ==
    /\ pc = "image_call"
    /\ width \in 1 .. MaxDim
    /\ height \in 1 .. MaxDim
    /\ x_min \in XMins
    /\ y_min \in YMins
    /\ \E s \in 1 .. MaxStep : x_max = x_min + s * Intervals(width)
    /\ \E s \in 1 .. MaxStep : y_max = y_min + s * Intervals(height)
    /\ max_iterations \in 1 .. MaxIter
    /\ c = CZero /\ iterations = -1
    /\ real_axis = <<>> /\ imaginary_axis = <<>> /\ mandelbrot_image = <<>>
    /\ i = 0 /\ j = 0
    /\ AstIdle /\ ScriptIdle

\* lines 69-75: the two axes and the zero-filled image
ImageSetup ==
    /\ pc = "image_call"
    /\ real_axis' = [k \in 0 .. width - 1 |-> linspace(x_min, x_max, width, k)]
    /\ imaginary_axis' =
           [k \in 0 .. height - 1 |-> linspace(y_min, y_max, height, k)]
    /\ mandelbrot_image' = [r \in 0 .. height - 1 |-> [q \in 0 .. width - 1 |-> 0]]
    /\ i' = 0 /\ j' = 0
    /\ pc' = "image_loop"
    /\ UNCHANGED <<width, height, x_min, x_max, y_min, y_max, mandVars,
                   astVars, scriptVars>>

\* lines 80-92: the body of the nested loops at (i, j), then the next (i, j)
ImagePixel ==
    /\ pc = "image_loop"
    /\ i < height
    /\ c' = Complex(real_axis[j], imaginary_axis[i])
    /\ LET r == mandelbrot(c', max_iterations)
       IN  IF r.raised
           THEN /\ pc' = "image_raised"
                /\ UNCHANGED <<iterations, mandelbrot_image, i, j>>
           ELSE /\ iterations' = r.value
                /\ mandelbrot_image' =
                       [mandelbrot_image EXCEPT ![i][j] = iterations']
                /\ IF j + 1 < width
                   THEN j' = j + 1 /\ i' = i
                   ELSE j' = 0 /\ i' = i + 1
                /\ UNCHANGED pc
    /\ UNCHANGED <<max_iterations, width, height, x_min, x_max, y_min,
                   y_max, real_axis, imaginary_axis, astVars, scriptVars>>

\* line 94
ImageReturn ==
    /\ pc = "image_loop"
    /\ i >= height
    /\ pc' = "image_returned"
    /\ UNCHANGED <<mandVars, imgVars, astVars, scriptVars>>

NextImage == ImageSetup \/ ImagePixel \/ ImageReturn

SpecImage == InitImage /\ [][NextImage]_vars

(***************************************************************************)
(* C1.  For every c and every positive max_iterations,                     *)
(* mandelbrot(c, max_iterations) returns the smallest n with               *)
(* 0 <= n < max_iterations and |z_(n+1)| > 2, where z_0 = 0 and            *)
(* z_(k+1) = z_k^2 + c, and max_iterations when there is none; it returns  *)
(* 0 when |c| > 2 and max_iterations when c = 0.                           *)
(***************************************************************************)
RECURSIVE ZSeq(_, _)
ZSeq(k, cc) == IF k = 0 THEN CZero ELSE SquareAdd(ZSeq(k - 1, cc), cc)

\* n is the escape time of cc under the cap maxit
IsEscapeTime(n, cc, maxit) ==
    /\ n \in 0 .. maxit
    /\ \A k \in 0 .. n - 1 : ~AbsGreater2(ZSeq(k + 1, cc))
    /\ n < maxit => AbsGreater2(ZSeq(n + 1, cc))

MandelbrotEnded == pc \in {"mandelbrot_returned", "mandelbrot_raised"}

C1_EscapeTime ==
    MandelbrotEnded =>
        /\ pc = "mandelbrot_returned"
        /\ IsEscapeTime(iterations, c, max_iterations)
        /\ AbsGreater2(c) => iterations = 0
        /\ c = CZero => iterations = max_iterations

\* what the code does: the claim's value whenever the call returns, and
\* OverflowError exactly when the magnitude of c is no finite float
C1_CodeBehaviour ==
    MandelbrotEnded =>
        /\ pc = "mandelbrot_raised" <=> AbsOverflows(c)
        /\ pc = "mandelbrot_returned" =>
               /\ IsEscapeTime(iterations, c, max_iterations)
               /\ AbsGreater2(c) => iterations = 0
               /\ c = CZero => iterations = max_iterations

(***************************************************************************)
(* C2.  For all bounds and sizes, create_mandelbrot_image returns height   *)
(* rows of width columns; cell (row, col) is mandelbrot of the col-th of   *)
(* width evenly spaced samples of [x_min, x_max] plus i times the row-th   *)
(* of height evenly spaced samples of [y_min, y_max], endpoints included,  *)
(* a single sample being the lower bound; every cell lies in               *)
(* 0 .. max_iterations.                                                    *)
(***************************************************************************)
RatEq(a, b) == a[1] * b[2] = b[1] * a[2]
RatSub(a, b) == <<a[1] * b[2] - b[1] * a[2], a[2] * b[2]>>

\* axis holds num evenly spaced samples of [lo, hi] (in 1/Den), ends included
EvenlySpaced(axis, lo, hi, num) ==
    /\ DOMAIN axis = 0 .. num - 1
    /\ RatEq(axis[0], <<lo, Den>>)
    /\ num > 1 => RatEq(axis[num - 1], <<hi, Den>>)
    /\ \A k \in 1 .. num - 2 :
           RatEq(RatSub(axis[k], axis[k - 1]), RatSub(axis[k + 1], axis[k]))

\* the grid the claim describes
IsGrid ==
    /\ EvenlySpaced(real_axis, x_min, x_max, width)
    /\ EvenlySpaced(imaginary_axis, y_min, y_max, height)
    /\ DOMAIN mandelbrot_image = 0 .. height - 1
    /\ \A r \in 0 .. height - 1 :
           /\ DOMAIN mandelbrot_image[r] = 0 .. width - 1
           /\ \A q \in 0 .. width - 1 :
                  /\ IsEscapeTime(mandelbrot_image[r][q],
                                  Complex(real_axis[q], imaginary_axis[r]),
                                  max_iterations)
                  /\ mandelbrot_image[r][q] \in 0 .. max_iterations
    /\ IsEscapeTime(mandelbrot_image[0][0],
                    Complex(<<x_min, Den>>, <<y_min, Den>>), max_iterations)

ImageEnded == pc \in {"image_returned", "image_raised"}

C2_Grid == ImageEnded => (pc = "image_returned" /\ IsGrid)

\* what the code does: the claim's grid whenever the call returns, and
\* OverflowError exactly when the magnitude of some sample is no finite float
C2_CodeBehaviour ==
    ImageEnded =>
        /\ pc = "image_raised" <=>
               \E r \in 0 .. height - 1, q \in 0 .. width - 1 :
                   AbsOverflows(Complex(real_axis[q], imaginary_axis[r]))
        /\ pc = "image_returned" => IsGrid

(***************************************************************************)
(* What the claims about the visitors speak of.                            *)
(***************************************************************************)
VisitedNodes == [k \in 1 .. Len(visits) |-> visits[k].node]

\* the place in the log of the call visit(n)
VisitOf(n) == CHOOSE k \in 1 .. Len(visits) : visits[k].node = n

\* no node above n is a Name or a Constant
Reached(t, n) ==
    \A a \in 1 .. n - 1 : Below(t, a, n) => t[a].kind \notin {"Name", "Constant"}

PrinterDone == visitor = "ASTPrinter" /\ pc = "returned"
FinderDone == visitor = "VariableAssignmentFinder" /\ pc = "returned"

(***************************************************************************)
(* C3.  After visit(root) on a fresh VariableAssignmentFinder, assignments *)
(* is the sequence of the ids of the Name targets of all Assign nodes of   *)
(* the tree, by pre-order of the Assign nodes and by target order within   *)
(* one Assign; a name assigned k times appears k times; compound targets   *)
(* contribute nothing.  For sample_code it is <<"message", "x">>.          *)
(***************************************************************************)
\* the ids of the Name targets of Assign a: its children but the last
TargetNames(t, a) ==
    LET kids == ChildSet(t, a)
        value == CHOOSE m \in kids : \A k \in kids : k <= m
        names == Ascending({m \in kids \ {value} : t[m].kind = "Name"})
    IN  [k \in 1 .. Len(names) |-> t[names[k]].id]

RECURSIVE ExpectedFrom(_, _)
ExpectedFrom(t, a) ==
    IF a > Len(t) THEN <<>>
    ELSE (IF t[a].kind = "Assign" THEN TargetNames(t, a) ELSE <<>>)
         \o ExpectedFrom(t, a + 1)

C3_Assignments ==
    (FinderDone /\ run = 1) =>
        /\ assignments = ExpectedFrom(tree, 1)
        /\ tree = SampleTree => assignments = <<"message", "x">>

C3_Witness ==
    /\ FinderDone /\ run = 1
    /\ tree = TargetsTree
    /\ assignments = <<"a", "b", "a">>

(***************************************************************************)
(* C4.  In ASTPrinter, for a node of every kind, the indent in effect      *)
(* while the node's children are visited is exactly 1 greater than the     *)
(* indent at which the node itself was emitted.                            *)
(***************************************************************************)
C4_ChildDepthPlusOne ==
    visitor = "ASTPrinter" =>
        \A k \in 2 .. Len(visits) :
            visits[k].indent =
                visits[VisitOf(Parent(tree, visits[k].node))].indent + 1

\* the kinds with a handler of their own print two lines, and their
\* children are visited 2 deeper
C4_CodeBehaviour ==
    visitor = "ASTPrinter" =>
        \A k \in 2 .. Len(visits) :
            LET p == VisitOf(Parent(tree, visits[k].node))
            IN  visits[k].indent = visits[p].indent +
                    (IF visits[p].handler \in Composite THEN 2 ELSE 1)

(***************************************************************************)
(* C5.  The indent of an ASTPrinter after visit(root) returns is the       *)
(* indent before the call, and it is never negative during the traversal.  *)
(***************************************************************************)
C5_DepthRestored ==
    visitor = "ASTPrinter" =>
        /\ indent >= indent0 /\ indent >= 0
        /\ pc = "returned" => indent = indent0

C5_Witness ==
    /\ PrinterDone /\ run = 2
    /\ indent0 = 1 /\ indent = 1
    /\ tree = SampleTree

(***************************************************************************)
(* C6.  ASTPrinter.visit(root) emits exactly one line per visited node,    *)
(* prefixed by two spaces per depth level of that node and followed by     *)
(* the summary of that node.                                               *)
(***************************************************************************)
C6_OneLinePerNode ==
    PrinterDone =>
        /\ Len(output) = Len(visits)
        /\ \A k \in 1 .. Len(output) :
               k <= Len(visits) =>
                   /\ output[k].kind = tree[visits[k].node].kind
                   /\ output[k].spaces = 2 * visits[k].indent

(***************************************************************************)
(* C7.  ASTPrinter.visit(node) calls the handler of the node's kind for    *)
(* Module, FunctionDef, Assign, Name, Constant, Expr and Call, and the     *)
(* default handler for every other kind; visit never fails on a            *)
(* well-formed tree: the handler that visit(node) calls runs, whatever the *)
(* kind of the node.                                                       *)
(***************************************************************************)
\* one of the handlers of ASTPrinter runs
HandlerRuns ==
    \/ visit_Module \/ visit_FunctionDef \/ visit_Assign \/ visit_Name
    \/ visit_Constant \/ visit_Expr \/ visit_Call \/ generic_visit

Registered == {"Module", "FunctionDef", "Assign", "Name", "Constant",
               "Expr", "Call"}

C7_Dispatch ==
    visitor = "ASTPrinter" =>
        /\ \A k \in 1 .. Len(visits) :
               LET kind == tree[visits[k].node].kind
                   h == visits[k].handler
               IN  /\ kind \notin Registered => h = "generic_visit"
                   /\ kind = "Module" => h = "visit_Module"
                   /\ kind = "FunctionDef" => h = "visit_FunctionDef"
                   /\ kind = "Assign" => h = "visit_Assign"
                   /\ kind = "Name" => h = "visit_Name"
                   /\ kind = "Constant" => h = "visit_Constant"
                   /\ kind = "Expr" => h = "visit_Expr"
                   /\ kind = "Call" => h = "visit_Call"
        /\ (Visiting /\ Top.pc = "start") => ENABLED HandlerRuns

C7_Witness ==
    /\ PrinterDone /\ run = 1
    /\ tree = FunctionTree
    /\ {visits[k].handler : k \in 1 .. Len(visits)} =
           {"generic_visit"} \cup {VisitMethod(k) : k \in Registered}

(***************************************************************************)
(* C8.  ASTPrinter visits depth-first, in pre-order, in the order of the   *)
(* children: every child of a visited node that is not a Name or a         *)
(* Constant is visited exactly once, in order; the children of a Name or   *)
(* a Constant are never visited.                                           *)
(***************************************************************************)
C8_PreOrder ==
    visitor = "ASTPrinter" =>
        /\ \A k \in 1 .. Len(visits) - 1 : visits[k].node < visits[k + 1].node
        /\ \A k \in 1 .. Len(visits) : Reached(tree, visits[k].node)
        /\ pc = "returned" =>
               {visits[k].node : k \in 1 .. Len(visits)} =
                   {n \in 1 .. Len(tree) : Reached(tree, n)}

C8_Witness ==
    /\ PrinterDone /\ run = 1
    /\ tree = SampleTree
    /\ VisitedNodes = <<1, 2, 3, 4, 5, 6, 8, 9, 10, 11, 13, 14, 15, 16, 18,
                        20, 21, 23, 24, 25, 26, 28>>

(***************************************************************************)
(* C9.  Running the visitor twice over the same tree gives the same        *)
(* output both times: the lines of the second ASTPrinter.visit(root) are   *)
(* those of the first, the assignments read after the finder's second      *)
(* visit(root) are those read after the first, and the tree is unchanged.  *)
(***************************************************************************)
SecondDone == pc = "returned" /\ run = 2

C9_TwiceIdentical ==
    SecondDone =>
        /\ visitor = "ASTPrinter" => output = first.output
        /\ visitor = "VariableAssignmentFinder" =>
               assignments = first.assignments
        /\ tree = first.tree

\* as amended: a finder that is used again still holds what it collected
C9_TwiceAmended ==
    SecondDone =>
        /\ visitor = "ASTPrinter" => output = first.output
        /\ (visitor = "VariableAssignmentFinder" /\ fresh) =>
               assignments = first.assignments
        /\ (visitor = "VariableAssignmentFinder" /\ ~fresh) =>
               assignments = first.assignments \o first.assignments
        /\ tree = first.tree

C9_Witness ==
    /\ SecondDone
    /\ visitor = "VariableAssignmentFinder" /\ ~fresh
    /\ tree = SampleTree
    /\ assignments = <<"message", "x", "message", "x">>

(***************************************************************************)
(* C10.  Whenever the parse of one of the four examples fails with a       *)
(* syntax error, the script prints a message for that example and goes on  *)
(* with the next one; each of the four examples is eventually attempted    *)
(* and the run reaches its end, whatever subset of the parses fails.       *)
(***************************************************************************)
C10_Recovers ==
    /\ [][pc = "except" =>
              /\ messages' = messages \cup {example}
              /\ example' = example + 1]_vars
    /\ [](pc = "end" => (attempted = Examples /\ messages = failed))
    /\ <>(pc = "end")

C10_Witness ==
    /\ pc = "end"
    /\ attempted = Examples
    /\ failed = {1, 3} /\ messages = {1, 3}

=============================================================================
